---- MODULE Spec2Model ----
(***************************************************************************)
(* Token-bucket rate limiter of opencoff/go-ratelimit, nanosecond-token    *)
(* variant (RateLimiter: NewBurstWithClock / MaybeTake / Limit / Reset).   *)
(*                                                                         *)
(* Time is counted in clock ticks; one tick stands for one nanosecond.     *)
(* The machine word and the number of ticks per second are scaled down     *)
(* together (Word for 2^64, NS for 10^9) so that the unsigned wrap-around  *)
(* of the Go arithmetic stays inside the range the model checker explores. *)
(***************************************************************************)
EXTENDS Integers, Naturals, Sequences, FiniteSets, TLC

VARIABLES
    r,      \* the *RateLimiter returned by the constructor, or Nil
    err,    \* "unset" before construction, then "nil" or "error"
    clock,  \* the injected Clock's current reading
    args,   \* the arguments the constructor was called with
    ret,    \* the last call of the sequential caller and what it returned
    full,   \* history: takes granted at the instant the bucket was (re)filled
    exh,    \* history: takes granted since the bucket was last emptied
    mu,     \* r.mu: Free, or the concurrent caller holding it
    pc,     \* each concurrent caller's position in its call
    opOf,   \* each concurrent caller's current call
    nowOf,  \* each concurrent caller's local now
    vnOf,   \* each concurrent caller's argument vn
    regOf,  \* each concurrent caller's value loaded from the limiter
    okOf,   \* each concurrent caller's result ok
    perip,  \* the *PerIPRateLimiter returned by NewPerIP, or Nil
    perr,   \* "unset" before NewPerIP, then "nil", "error" or "panic"
    pargs,  \* the arguments NewPerIP was called with
    pret,   \* the last per-host call and what it returned
    order,  \* history: the tracked keys, most recently looked up first
    lim,    \* the *Limiter returned by New(g, p, cachesize), or Nil
    heap,   \* the limiters the concurrent callers have created, in order
    pmu,    \* the registry's own lock: Free, or the caller holding it
    aOf,    \* each concurrent caller's argument a
    kOf,    \* each concurrent caller's key k
    zOf,    \* each concurrent caller's limiter: its place in heap, or 0
    grants, \* history: the permits each key has been granted
    zmu,    \* the lock of each limiter in heap: Free, or the caller holding it
    level,  \* history: the granted tokens, in ticks, that time has not yet paid for
    slp,    \* each caller's position in RateLimiter.Wait: its sleep and its record
    rsv     \* each caller's position in Limiter.Wait: its context and reservation

seqVars == <<ret, full, exh>>
thrVars == <<mu, pc, opOf, nowOf, vnOf, regOf, okOf>>
conVars == <<lim, heap, pmu, aOf, kOf, zOf, grants, zmu>>
waitVars == <<slp, rsv>>
regVars == <<perip, perr, pargs, pret, order, conVars>>
vars == <<r, err, clock, args, ret, full, exh, mu, pc, opOf, nowOf, vnOf, regOf, okOf,
          perip, perr, pargs, pret, order,
          lim, heap, pmu, aOf, kOf, zOf, grants, zmu, level, slp, rsv>>

----------------------------------------------------------------------------
(* Bounds of the model *)
MaxRate == 3
MaxPer == 2
MaxBurst == 3
MaxClock == 6
MaxStep == 3
MaxStart == 0
MaxTake == 4
MaxClockC == 2
MaxTakeC == 2
MaxRateP == 1
MaxPerP == 1
MaxMax == 3
MaxClockP == 1
MaxTakeP == 1
MaxClockW == 6
MaxTakeW == 2
MaxNaps == 3
MaxClockX == 5
MaxDebt == 2

(* Program constants, scaled *)
NS == 4         \* _NS: clock ticks in one second
RecentRatio == 65   \* New2QParams: share of the recent list, in percent
GhostRatio == 35    \* New2QParams: share of the evicted-keys list, in percent
Default2QRecentRatio == 25      \* New2Q: share of the recent list, in percent
Default2QGhostEntries == 50     \* New2Q: share of the evicted-keys list, in percent
Word == 256     \* 2^64: modulus of uint64 arithmetic

MaxInt == (Word \div 2) - 1
MinInt == -(Word \div 2)

Nil == [nil |-> TRUE]

\* the values of vn the sequential caller passes: the small ones, and uints
\* from the upper part of the range
TakeSizes == (0 .. MaxTake) \cup {Word \div 4, Word \div 2, Word - 1}

\* the concurrent callers of one limiter, and the lock with no holder
Threads == {"t1", "t2"}
Free == "free"

\* the limiters <<rate, per, burst>> the concurrent callers share
Shared == {<<0, 1, 0>>, <<2, 1, 0>>, <<3, 1, 0>>, <<2, 1, 3>>}

----------------------------------------------------------------------------
(* Arithmetic of the Go types *)

\* uint64 multiplication and addition wrap modulo 2^64
MulU(a, b) == (a * b) % Word
AddU(a, b) == (a + b) % Word

\* time.Time.Sub: the difference as a Duration, saturated to the int64 range
Sub(t, u) ==
    LET d == t - u
    IN  IF d > MaxInt THEN MaxInt ELSE IF d < MinInt THEN MinInt ELSE d

\* uint64(int64): two's complement reinterpretation
ToUint64(d) == d % Word

----------------------------------------------------------------------------
(* NewBurstWithClock *)

\* mutant: per = 0 is taken for 1 instead of being refused
NewBurstPerDefaulted(rate, per, burst, clk) ==
    LET p    == IF per = 0 THEN 1 ELSE per
        b    == IF burst = 0 THEN rate ELSE burst
        cost == IF rate > 0 THEN MulU(p, NS) \div rate ELSE 0
        tok  == IF rate > 0 THEN MulU(b, cost) ELSE 0
    IN  [rl  |-> [rate |-> rate, burst |-> b, per |-> p, cost |-> cost,
                  tokens |-> tok, maxtok |-> tok, last |-> clk],
         err |-> "nil"]

NewBurstWithClock(rate, per, burst, clk) ==
    IF per = 0
    THEN [rl |-> Nil, err |-> "error"]
    ELSE LET b    == IF burst = 0 THEN rate ELSE burst
             cost == IF rate > 0 THEN MulU(per, NS) \div rate ELSE 0
             tok  == IF rate > 0 THEN MulU(b, cost) ELSE 0
         IN  [rl  |-> [rate |-> rate, burst |-> b, per |-> per, cost |-> cost,
                       tokens |-> tok, maxtok |-> tok, last |-> clk],
              err |-> "nil"]

----------------------------------------------------------------------------
(* MaybeTake, statement by statement *)

\* mutant: the rate check is missing
UnlimitedNever(rl) == FALSE

\* if r.rate == 0 { return true }
Unlimited(rl) == rl.rate = 0

\* mutant: the elapsed time is cut down to whole units of two ticks
ElapsedCoarse(nw, last) == ToUint64((Sub(nw, last) \div 2) * 2)

\* uint64(now.Sub(r.last).Nanoseconds())
Elapsed(nw, last) == ToUint64(Sub(nw, last))

\* r.tokens += elapsed
Refill(tokens, e) == AddU(tokens, e)

\* if r.tokens > r.maxtok { r.tokens = r.maxtok }
Clamp(tokens, maxtok) == IF tokens > maxtok THEN maxtok ELSE tokens

\* want := uint64(vn) * r.cost
Want(vn, cost) == MulU(vn, cost)

\* r.tokens >= want
CanTake(tokens, want) == tokens >= want

\* mutant: a refused take moves last on and drops the time it was credited
MaybeTakeDropsCredit(rl, vn, nw) ==
    IF Unlimited(rl)
    THEN [rl |-> rl, ok |-> TRUE]
    ELSE LET t    == Clamp(Refill(rl.tokens, Elapsed(nw, rl.last)), rl.maxtok)
             want == Want(vn, rl.cost)
             ok   == CanTake(t, want)
         IN  [rl |-> [rl EXCEPT !.tokens = IF ok THEN t - want ELSE rl.tokens,
                                !.last = nw],
              ok |-> ok]

\* the whole of MaybeTake for one caller: the limiter afterwards and the result
MaybeTake(rl, vn, nw) ==
    IF Unlimited(rl)
    THEN [rl |-> rl, ok |-> TRUE]
    ELSE LET t    == Clamp(Refill(rl.tokens, Elapsed(nw, rl.last)), rl.maxtok)
             want == Want(vn, rl.cost)
             ok   == CanTake(t, want)
         IN  [rl |-> [rl EXCEPT !.tokens = IF ok THEN t - want ELSE t,
                                !.last = nw],
              ok |-> ok]

\* Limit: !r.MaybeTake(1)
Limit(rl, nw) ==
    LET m == MaybeTake(rl, 1, nw)
    IN  [rl |-> m.rl, limited |-> ~m.ok]

\* mutant: Reset refills the bucket and leaves last alone
ResetTokensOnly(rl, nw) ==
    IF rl.rate > 0
    THEN [rl EXCEPT !.tokens = MulU(rl.burst, rl.cost)]
    ELSE rl

(* Reset *)
Reset(rl, nw) ==
    IF rl.rate > 0
    THEN [rl EXCEPT !.tokens = MulU(rl.burst, rl.cost), !.last = nw]
    ELSE rl

----------------------------------------------------------------------------
(* History variables *)

NoFull == [src |-> "none", taken |-> 0, single |-> TRUE]
NoExh  == [at |-> -1, granted |-> 0, rejAt |-> -1]

\* capacity of a limited bucket in whole takes
Capacity(rl) == IF rl.cost > 0 THEN rl.maxtok \div rl.cost ELSE 0

\* a count that only needs to tell "more than the capacity"
Sat(n, rl) == IF n > Capacity(rl) + 1 THEN Capacity(rl) + 1 ELSE n

\* takes granted at the instant of construction or of the last Reset, or at
\* the instant of the first query after the time that fills the bucket
FullAfterTake(rl, vn, ok) ==
    IF full.src # "none" /\ ok /\ rl.rate > 0
    THEN [full EXCEPT !.taken = Sat(full.taken + vn, rl),
                      !.single = full.single /\ vn = 1]
    ELSE IF full.src = "none" /\ rl.rate > 0 /\ clock - rl.last >= rl.maxtok
    THEN [src |-> "time", taken |-> IF ok THEN Sat(vn, rl) ELSE 0,
          single |-> ~ok \/ vn = 1]
    ELSE full

\* single takes granted, and queries rejected, since a take emptied the bucket
ExhAfterTake(rl2, vn, ok) ==
    IF rl2.rate = 0 THEN NoExh
    ELSE IF exh.at >= 0 /\ clock - exh.at < rl2.maxtok /\ (~ok \/ vn = 1)
         THEN IF ok
              THEN [exh EXCEPT !.granted = Sat(exh.granted + 1, rl2)]
              ELSE [exh EXCEPT !.rejAt = IF clock > exh.at THEN clock ELSE exh.rejAt]
    ELSE IF ok /\ rl2.tokens = 0
         THEN [at |-> clock, granted |-> 0, rejAt |-> -1]
    ELSE NoExh

\* the meter of the granted tokens: every tick pays for one unit of it
Drained(lv, d) == IF lv > d THEN lv - d ELSE 0

\* the meter after a take of vn tokens: a granted take adds its vn * cost
\* ticks; the meter only needs to tell "more than maxtok"
Charged(lv, rl, vn, ok) ==
    IF ok /\ rl.rate > 0
    THEN IF lv + vn * rl.cost > rl.maxtok THEN rl.maxtok + 1 ELSE lv + vn * rl.cost
    ELSE lv

----------------------------------------------------------------------------
(* The bounded cache of the per-host limiters: lru.TwoQueueCache.  Each of    *)
(* its three lists is a sequence of keys, the most recently used first.     *)

\* net.Addr values: TCP addresses, and a Unix address that has no port
TCPAddrs == {[net |-> "tcp", host |-> h, port |-> q] : h \in {"h1", "h2"}, q \in {1, 2}}
UnixAddrs == {[net |-> "unix", host |-> "u1", port |-> 0]}

\* a.String(): "host:port" for a TCP address, the path for a Unix address
String(a) == IF a.net = "tcp" THEN <<a.host, a.port>> ELSE <<a.host>>

Keys == {String(a) : a \in TCPAddrs \cup UnixAddrs} \cup {<<a.host>> : a \in TCPAddrs}
NoKey == << >>

Contains(l, k) == \E i \in 1 .. Len(l) : l[i] = k
Remove(l, k) == SelectSeq(l, LAMBDA x : x # k)
PushFront(l, k) == <<k>> \o Remove(l, k)
Oldest(l) == l[Len(l)]
RemoveOldest(l) == SubSeq(l, 1, Len(l) - 1)

\* simplelru.Add on a list of capacity size: the oldest key makes room
LRUAdd(l, k, size) ==
    LET m == PushFront(l, k)
    IN  IF Len(m) > size THEN RemoveOldest(m) ELSE m

\* the keys the cache holds a value for
Tracked(c) == {k \in Keys : c.val[k] # Nil}

\* New2QParams(size, recentRatio, ghostRatio), the ratios in percent: the
\* recent and frequent lists have room for size keys each, the list of
\* recently evicted keys for evictSize keys, and a list of no room is refused
New2QParams(size, recentRatio, ghostRatio) ==
    LET recentSize == (size * recentRatio) \div 100
        evictSize  == (size * ghostRatio) \div 100
    IN  IF size <= 0 \/ evictSize <= 0
        THEN [c |-> Nil, err |-> "error"]
        ELSE [c |-> [size |-> size, recentSize |-> recentSize, evictSize |-> evictSize,
                     recent |-> << >>, frequent |-> << >>, recentEvict |-> << >>,
                     val |-> [k \in Keys |-> Nil]],
              err |-> "nil"]

\* TwoQueueCache.Get: a hit in the frequent list moves the key to its front,
\* a hit in the recent list promotes the key to the frequent list
TwoQGet(c, k) ==
    IF Contains(c.frequent, k)
    THEN [c |-> [c EXCEPT !.frequent = PushFront(@, k)], v |-> c.val[k], ok |-> TRUE]
    ELSE IF Contains(c.recent, k)
    THEN [c |-> [c EXCEPT !.recent = Remove(@, k), !.frequent = PushFront(@, k)],
          v |-> c.val[k], ok |-> TRUE]
    ELSE [c |-> c, v |-> Nil, ok |-> FALSE]

\* TwoQueueCache.ensureSpace: with the cache full, the oldest key of the recent
\* list goes if that list is over its share, else the oldest frequent key
ensureSpace(c, recentEvict) ==
    IF Len(c.recent) + Len(c.frequent) < c.size
    THEN c
    ELSE IF /\ Len(c.recent) > 0
            /\ \/ Len(c.recent) > c.recentSize
               \/ (Len(c.recent) = c.recentSize /\ ~recentEvict)
    THEN LET k == Oldest(c.recent)
         IN  [c EXCEPT !.recent = RemoveOldest(@),
                       !.recentEvict = LRUAdd(@, k, c.evictSize),
                       !.val[k] = Nil]
    ELSE LET k == Oldest(c.frequent)
         IN  [c EXCEPT !.frequent = RemoveOldest(@), !.val[k] = Nil]

\* TwoQueueCache.Add
TwoQAdd(c, k, v) ==
    IF Contains(c.frequent, k)
    THEN [c EXCEPT !.frequent = PushFront(@, k), !.val[k] = v]
    ELSE IF Contains(c.recent, k)
    THEN [c EXCEPT !.recent = Remove(@, k), !.frequent = PushFront(@, k), !.val[k] = v]
    ELSE IF Contains(c.recentEvict, k)
    THEN LET d == ensureSpace(c, TRUE)
         IN  [d EXCEPT !.recentEvict = Remove(@, k), !.frequent = PushFront(@, k),
                       !.val[k] = v]
    ELSE LET d == ensureSpace(c, FALSE)
         IN  [d EXCEPT !.recent = PushFront(@, k), !.val[k] = v]

\* TwoQueueCache.Probe(key, ctor): the value of key, made by ctor and inserted
\* if the cache has none, in one critical section of the cache
Probe(c, k, made) ==
    LET g == TwoQGet(c, k)
    IN  IF g.ok
        THEN [c |-> g.c, v |-> g.v, hit |-> TRUE]
        ELSE [c |-> TwoQAdd(c, k, made), v |-> made, hit |-> FALSE]

----------------------------------------------------------------------------
(* PerIPRateLimiter *)

\* New(rate, per): NewBurst(rate, per, 0)
New(rate, per, clk) == NewBurstWithClock(rate, per, 0, clk)

\* RateLimiter.Wait(vn) of a caller with no competitor: it sleeps until the
\* deficit has dripped in and then takes; a request that can never be met
\* does not return
Wait(rl, vn, nw) ==
    IF Unlimited(rl)
    THEN [rl |-> rl, ok |-> TRUE, now |-> nw, returns |-> TRUE]
    ELSE LET t    == Clamp(Refill(rl.tokens, Elapsed(nw, rl.last)), rl.maxtok)
             want == Want(vn, rl.cost)
             d    == IF CanTake(t, want) THEN 0 ELSE want - t
         IN  [rl |-> [rl EXCEPT !.tokens = IF d = 0 THEN t - want ELSE 0,
                                !.last = nw + d],
              ok |-> TRUE, now |-> nw + d, returns |-> want <= rl.maxtok]

\* mutant: the cache is made one entry larger than asked
NewPerIPLarger(ratex, perx, max, clk) ==
    IF New(ratex, perx, clk).err # "nil"
    THEN [p |-> Nil, err |-> "error"]
    ELSE IF max <= 0
    THEN [p |-> Nil, err |-> "error"]
    ELSE IF ratex > 0
    THEN LET q == New2QParams(max + 1, RecentRatio, GhostRatio)
         IN  IF q.err # "nil"
             THEN [p |-> Nil, err |-> "error"]
             ELSE [p |-> [rl |-> q.c, rate |-> ratex, per |-> perx], err |-> "nil"]
    ELSE [p |-> [rl |-> Nil, rate |-> ratex, per |-> perx], err |-> "nil"]

\* mutant: the cache is made whatever the rate
NewPerIPAlwaysCache(ratex, perx, max, clk) ==
    IF New(ratex, perx, clk).err # "nil"
    THEN [p |-> Nil, err |-> "error"]
    ELSE IF max <= 0
    THEN [p |-> Nil, err |-> "error"]
    ELSE LET q == New2QParams(max, RecentRatio, GhostRatio)
         IN  IF q.err # "nil"
             THEN [p |-> Nil, err |-> "error"]
             ELSE [p |-> [rl |-> q.c, rate |-> ratex, per |-> perx], err |-> "nil"]

NewPerIP(ratex, perx, max, clk) ==
    IF New(ratex, perx, clk).err # "nil"
    THEN [p |-> Nil, err |-> "error"]
    ELSE IF max <= 0
    THEN [p |-> Nil, err |-> "error"]
    ELSE IF ratex > 0
    THEN LET q == New2QParams(max, RecentRatio, GhostRatio)
         IN  IF q.err # "nil"
             THEN [p |-> Nil, err |-> "error"]
             ELSE [p |-> [rl |-> q.c, rate |-> ratex, per |-> perx], err |-> "nil"]
    ELSE [p |-> [rl |-> Nil, rate |-> ratex, per |-> perx], err |-> "nil"]

\* mutant: probe makes and inserts a new bucket at every call
probeAlwaysNew(p, a, nw) ==
    [c |-> TwoQAdd(p.rl, String(a), New(p.rate, p.per, nw).rl),
     v |-> New(p.rate, p.per, nw).rl, hit |-> FALSE]

\* probe: the bucket of a.String(), made by New(p.rate, p.per) on first sight
probe(p, a, nw) == Probe(p.rl, String(a), New(p.rate, p.per, nw).rl)

\* mutant: every key of the cache points at the one bucket
StoredShared(c, k, z) ==
    [c EXCEPT !.val = [x \in Keys |-> IF x = k \/ c.val[x] # Nil THEN z ELSE Nil]]

\* the cache holds pointers: the bucket of key k after the call on it
Stored(c, k, z) == [c EXCEPT !.val[k] = z]

\* what a per-host call answers when it does not reach a bucket
Short(p, val) == [p |-> p, val |-> val, looked |-> FALSE, hit |-> FALSE, z |-> Nil,
                  now |-> 0, returns |-> TRUE, panic |-> FALSE]

\* PerIPRateLimiter.Limit
PerIPLimit(p, a, nw) ==
    IF p.rl = Nil
    THEN Short(p, FALSE)
    ELSE LET pr == probe(p, a, nw)
             m  == Limit(pr.v, nw)
         IN  [p |-> [p EXCEPT !.rl = Stored(pr.c, String(a), m.rl)],
              val |-> m.limited, looked |-> TRUE, hit |-> pr.hit, z |-> pr.v,
              now |-> nw, returns |-> TRUE, panic |-> FALSE]

\* PerIPRateLimiter.MaybeTake
PerIPMaybeTake(p, a, n, nw) ==
    IF p.rl = Nil
    THEN Short(p, FALSE)
    ELSE LET pr == probe(p, a, nw)
             m  == MaybeTake(pr.v, n, nw)
         IN  [p |-> [p EXCEPT !.rl = Stored(pr.c, String(a), m.rl)],
              val |-> m.ok, looked |-> TRUE, hit |-> pr.hit, z |-> pr.v,
              now |-> nw, returns |-> TRUE, panic |-> FALSE]

\* PerIPRateLimiter.Wait
PerIPWait(p, a, n, nw) ==
    IF p.rl = Nil
    THEN Short(p, FALSE)
    ELSE LET pr == probe(p, a, nw)
             m  == Wait(pr.v, n, nw)
         IN  [p |-> [p EXCEPT !.rl = Stored(pr.c, String(a), m.rl)],
              val |-> m.ok, looked |-> TRUE, hit |-> pr.hit, z |-> pr.v,
              now |-> m.now, returns |-> m.returns, panic |-> FALSE]

\* PerIPRateLimiter.Reset: probe is called whether or not there is a cache,
\* and a call on the nil cache panics
PerIPReset(p, a, nw) ==
    IF p.rl = Nil
    THEN [Short(p, FALSE) EXCEPT !.panic = TRUE]
    ELSE LET pr == probe(p, a, nw)
         IN  [p |-> [p EXCEPT !.rl = Stored(pr.c, String(a), Reset(pr.v, nw))],
              val |-> FALSE, looked |-> TRUE, hit |-> pr.hit, z |-> pr.v,
              now |-> nw, returns |-> TRUE, panic |-> FALSE]

NoAddr == [net |-> "none", host |-> "", port |-> 0]
NoCallP == [op |-> "none", a |-> NoAddr, n |-> 0, val |-> FALSE, was |-> "none"]

\* the key a call pushed out of the cache, if any
Evicted(c, d) ==
    LET gone == Tracked(c) \ Tracked(d)
    IN  IF gone = {} THEN NoKey ELSE CHOOSE k \in gone : TRUE

\* no caller is in a Wait
NoSleep == [t0 |-> 0, need |-> 0, until |-> 0, naps |-> 0, rival |-> FALSE]
NoResv ==
    [ctx |-> "none", ok |-> FALSE, tokens |-> 0, timeToAct |-> 0, restored |-> 0,
     err |-> "unset"]
WaitIdle ==
    /\ slp = [t \in Threads |-> NoSleep]
    /\ rsv = [t \in Threads |-> NoResv]

\* no concurrent caller of a registry is under way
ConIdle ==
    /\ lim = Nil
    /\ heap = << >>
    /\ pmu = Free
    /\ aOf = [t \in Threads |-> NoAddr]
    /\ kOf = [t \in Threads |-> NoKey]
    /\ zOf = [t \in Threads |-> 0]
    /\ grants = [k \in Keys |-> 0]
    /\ zmu = << >>

----------------------------------------------------------------------------
(* The sequential caller: every call runs to completion *)

Init ==
    /\ r = Nil
    /\ err = "unset"
    /\ clock \in 0 .. MaxStart
    /\ args = [rate |-> 0, per |-> 0, burst |-> 0, clk |-> 0]
    /\ ret = [op |-> "none", n |-> 0, val |-> FALSE]
    /\ full = NoFull
    /\ exh = NoExh
    /\ mu = Free
    /\ pc = [t \in Threads |-> "idle"]
    /\ opOf = [t \in Threads |-> "none"]
    /\ nowOf = [t \in Threads |-> 0]
    /\ vnOf = [t \in Threads |-> 0]
    /\ regOf = [t \in Threads |-> 0]
    /\ okOf = [t \in Threads |-> FALSE]
    /\ perip = Nil
    /\ perr = "unset"
    /\ pargs = [rate |-> 0, per |-> 0, max |-> 0]
    /\ pret = NoCallP
    /\ order = << >>
    /\ ConIdle
    /\ level = 0
    /\ WaitIdle

Construct ==
    /\ err = "unset"
    /\ \E rate \in 0 .. MaxRate, per \in 0 .. MaxPer, burst \in 0 .. MaxBurst :
         LET res == NewBurstWithClock(rate, per, burst, clock)
         IN  /\ r' = res.rl
             /\ err' = res.err
             /\ args' = [rate |-> rate, per |-> per, burst |-> burst, clk |-> clock]
             /\ ret' = [op |-> "New", n |-> 0, val |-> res.err = "nil"]
             /\ full' = IF res.err = "nil" /\ rate > 0
                        THEN [src |-> "new", taken |-> 0, single |-> TRUE]
                        ELSE NoFull
    /\ exh' = NoExh
    /\ level' = 0
    /\ UNCHANGED <<clock, thrVars, regVars, waitVars>>

Advance ==
    /\ r # Nil
    /\ \E d \in 1 .. MaxStep :
         /\ clock + d <= MaxClock
         /\ clock' = clock + d
    /\ full' = NoFull
    /\ ret' = [op |-> "Advance", n |-> 0, val |-> FALSE]
    /\ level' = Drained(level, clock' - clock)
    /\ UNCHANGED <<r, err, args, exh, thrVars, regVars, waitVars>>

CallMaybeTake ==
    /\ r # Nil
    /\ \E vn \in TakeSizes :
         LET m == MaybeTake(r, vn, clock)
         IN  /\ r' = m.rl
             /\ ret' = [op |-> "MaybeTake", n |-> vn, val |-> m.ok]
             /\ full' = FullAfterTake(r, vn, m.ok)
             /\ exh' = ExhAfterTake(m.rl, vn, m.ok)
             /\ level' = Charged(level, r, vn, m.ok)
    /\ UNCHANGED <<err, clock, args, thrVars, regVars, waitVars>>

CallLimit ==
    /\ r # Nil
    /\ LET m == Limit(r, clock)
       IN  /\ r' = m.rl
           /\ ret' = [op |-> "Limit", n |-> 1, val |-> m.limited]
           /\ full' = FullAfterTake(r, 1, ~m.limited)
           /\ exh' = ExhAfterTake(m.rl, 1, ~m.limited)
           /\ level' = Charged(level, r, 1, ~m.limited)
    /\ UNCHANGED <<err, clock, args, thrVars, regVars, waitVars>>

CallReset ==
    /\ r # Nil
    /\ r' = Reset(r, clock)
    /\ ret' = [op |-> "Reset", n |-> 0, val |-> FALSE]
    /\ full' = IF r.rate > 0
               THEN [src |-> "reset", taken |-> 0, single |-> TRUE]
               ELSE NoFull
    /\ exh' = NoExh
    /\ level' = 0
    /\ UNCHANGED <<err, clock, args, thrVars, regVars, waitVars>>

Next ==
    \/ Construct
    \/ Advance
    \/ CallMaybeTake
    \/ CallLimit
    \/ CallReset

Spec == Init /\ [][Next]_vars

----------------------------------------------------------------------------
(* Concurrent callers of one limiter: one step per statement of the call *)

InitC ==
    /\ \E c \in Shared :
         /\ args = [rate |-> c[1], per |-> c[2], burst |-> c[3], clk |-> 0]
         /\ r = NewBurstWithClock(c[1], c[2], c[3], 0).rl
    /\ err = "nil"
    /\ clock = 0
    /\ ret = [op |-> "New", n |-> 0, val |-> TRUE]
    /\ full = NoFull
    /\ exh = NoExh
    /\ mu = Free
    /\ pc = [t \in Threads |-> "idle"]
    /\ opOf = [t \in Threads |-> "none"]
    /\ nowOf = [t \in Threads |-> 0]
    /\ vnOf = [t \in Threads |-> 0]
    /\ regOf = [t \in Threads |-> 0]
    /\ okOf = [t \in Threads |-> FALSE]
    /\ perip = Nil
    /\ perr = "unset"
    /\ pargs = [rate |-> 0, per |-> 0, max |-> 0]
    /\ pret = NoCallP
    /\ order = << >>
    /\ ConIdle
    /\ level = 0
    /\ WaitIdle

\* the clock moves on between any two steps
Tick ==
    /\ clock < MaxClockC
    /\ clock' = clock + 1
    /\ level' = Drained(level, 1)
    /\ UNCHANGED <<r, err, args, seqVars, thrVars, regVars, waitVars>>

\* MaybeTake, entry: the rate check, then now := r.clock.Now()
Enter(t, name, n) ==
    /\ pc[t] = "idle"
    /\ opOf' = [opOf EXCEPT ![t] = name]
    /\ vnOf' = [vnOf EXCEPT ![t] = n]
    /\ IF Unlimited(r)
       THEN /\ pc' = [pc EXCEPT ![t] = "returned"]
            /\ okOf' = [okOf EXCEPT ![t] = (name = "MaybeTake")]
            /\ UNCHANGED nowOf
       ELSE /\ pc' = [pc EXCEPT ![t] = "lock"]
            /\ nowOf' = [nowOf EXCEPT ![t] = clock]
            /\ UNCHANGED okOf
    /\ UNCHANGED <<r, err, clock, args, seqVars, mu, regOf, regVars, level, waitVars>>

EnterMaybeTake(t) == \E n \in 0 .. MaxTakeC : Enter(t, "MaybeTake", n)

\* Limit: !r.MaybeTake(1)
EnterLimit(t) == Enter(t, "Limit", 1)

\* r.mu.Lock()
Lock(t) ==
    /\ pc[t] = "lock"
    /\ mu = Free
    /\ mu' = t
    /\ pc' = [pc EXCEPT ![t] = "elapsed"]
    /\ UNCHANGED <<r, err, clock, args, seqVars, opOf, nowOf, vnOf, regOf, okOf, regVars,
                   level, waitVars>>

\* r.tokens += uint64(now.Sub(r.last).Nanoseconds()): the operand
LoadLast(t) ==
    /\ pc[t] = "elapsed"
    /\ regOf' = [regOf EXCEPT ![t] = Elapsed(nowOf[t], r.last)]
    /\ pc' = [pc EXCEPT ![t] = "load"]
    /\ UNCHANGED <<r, err, clock, args, seqVars, mu, opOf, nowOf, vnOf, okOf, regVars,
                   level, waitVars>>

\* r.tokens += ...: the load and the addition
LoadTokens(t) ==
    /\ pc[t] = "load"
    /\ regOf' = [regOf EXCEPT ![t] = Refill(r.tokens, regOf[t])]
    /\ pc' = [pc EXCEPT ![t] = "store"]
    /\ UNCHANGED <<r, err, clock, args, seqVars, mu, opOf, nowOf, vnOf, okOf, regVars,
                   level, waitVars>>

\* r.tokens += ...: the store
StoreTokens(t) ==
    /\ pc[t] = "store"
    /\ r' = [r EXCEPT !.tokens = regOf[t]]
    /\ pc' = [pc EXCEPT ![t] = "last"]
    /\ UNCHANGED <<err, clock, args, seqVars, mu, opOf, nowOf, vnOf, regOf, okOf, regVars,
                   level, waitVars>>

\* r.last = now
StoreLast(t) ==
    /\ pc[t] = "last"
    /\ r' = [r EXCEPT !.last = nowOf[t]]
    /\ pc' = [pc EXCEPT ![t] = "clamp"]
    /\ UNCHANGED <<err, clock, args, seqVars, mu, opOf, nowOf, vnOf, regOf, okOf, regVars,
                   level, waitVars>>

\* if r.tokens > r.maxtok { r.tokens = r.maxtok }
ClampTokens(t) ==
    /\ pc[t] = "clamp"
    /\ r' = [r EXCEPT !.tokens = Clamp(r.tokens, r.maxtok)]
    /\ pc' = [pc EXCEPT ![t] = "cmp"]
    /\ UNCHANGED <<err, clock, args, seqVars, mu, opOf, nowOf, vnOf, regOf, okOf, regVars,
                   level, waitVars>>

\* if want := uint64(vn) * r.cost; r.tokens >= want
Compare(t) ==
    /\ pc[t] = "cmp"
    /\ regOf' = [regOf EXCEPT ![t] = r.tokens]
    /\ pc' = [pc EXCEPT ![t] =
                IF CanTake(r.tokens, Want(vnOf[t], r.cost)) THEN "sub" ELSE "unlock"]
    /\ UNCHANGED <<r, err, clock, args, seqVars, mu, opOf, nowOf, vnOf, okOf, regVars,
                   level, waitVars>>

\* r.tokens -= want; ok = true.  The build may reuse the value it compared or
\* load r.tokens again.
Subtract(t) ==
    /\ pc[t] = "sub"
    /\ \E cur \in {regOf[t], r.tokens} :
         r' = [r EXCEPT !.tokens = (cur - Want(vnOf[t], r.cost)) % Word]
    /\ okOf' = [okOf EXCEPT ![t] = TRUE]
    /\ pc' = [pc EXCEPT ![t] = "unlock"]
    /\ level' = Charged(level, r, vnOf[t], TRUE)
    /\ UNCHANGED <<err, clock, args, seqVars, mu, opOf, nowOf, vnOf, regOf, regVars,
                   waitVars>>

\* r.mu.Unlock(); return ok (negated by Limit)
Unlock(t) ==
    /\ pc[t] = "unlock"
    /\ mu' = Free
    /\ okOf' = [okOf EXCEPT ![t] = IF opOf[t] = "Limit" THEN ~okOf[t] ELSE okOf[t]]
    /\ pc' = [pc EXCEPT ![t] = "returned"]
    /\ UNCHANGED <<r, err, clock, args, seqVars, opOf, nowOf, vnOf, regOf, regVars,
                   level, waitVars>>

\* Reset: if r.rate > 0 { r.tokens = r.burst * r.cost
EnterReset(t) ==
    /\ pc[t] = "idle"
    /\ opOf' = [opOf EXCEPT ![t] = "Reset"]
    /\ IF r.rate > 0
       THEN /\ r' = [r EXCEPT !.tokens = MulU(r.burst, r.cost)]
            /\ pc' = [pc EXCEPT ![t] = "resetlast"]
       ELSE /\ pc' = [pc EXCEPT ![t] = "returned"]
            /\ UNCHANGED r
    /\ level' = 0
    /\ UNCHANGED <<err, clock, args, seqVars, mu, nowOf, vnOf, regOf, okOf, regVars,
                   waitVars>>

\* Reset: r.last = r.clock.Now() }
ResetLast(t) ==
    /\ pc[t] = "resetlast"
    /\ r' = [r EXCEPT !.last = clock]
    /\ pc' = [pc EXCEPT ![t] = "returned"]
    /\ UNCHANGED <<err, clock, args, seqVars, mu, opOf, nowOf, vnOf, regOf, okOf, regVars,
                   level, waitVars>>

\* the caller has its result and is free to call again
Return(t) ==
    /\ pc[t] = "returned"
    /\ pc' = [pc EXCEPT ![t] = "idle"]
    /\ opOf' = [opOf EXCEPT ![t] = "none"]
    /\ nowOf' = [nowOf EXCEPT ![t] = 0]
    /\ vnOf' = [vnOf EXCEPT ![t] = 0]
    /\ regOf' = [regOf EXCEPT ![t] = 0]
    /\ okOf' = [okOf EXCEPT ![t] = FALSE]
    /\ UNCHANGED <<r, err, clock, args, seqVars, mu, regVars, level, waitVars>>

\* a step of a MaybeTake or Limit call
TakeStep(t) ==
    \/ EnterMaybeTake(t)
    \/ EnterLimit(t)
    \/ Lock(t)
    \/ LoadLast(t)
    \/ LoadTokens(t)
    \/ StoreTokens(t)
    \/ StoreLast(t)
    \/ ClampTokens(t)
    \/ Compare(t)
    \/ Subtract(t)
    \/ Unlock(t)
    \/ Return(t)

ResetStep(t) ==
    \/ EnterReset(t)
    \/ ResetLast(t)

\* concurrent MaybeTake and Limit calls
NextT ==
    \/ Tick
    \/ \E t \in Threads : TakeStep(t)

SpecT == InitC /\ [][NextT]_vars

\* concurrent MaybeTake, Limit and Reset calls
NextC ==
    \/ Tick
    \/ \E t \in Threads : TakeStep(t)
    \/ \E t \in Threads : ResetStep(t)

SpecC == InitC /\ [][NextC]_vars

----------------------------------------------------------------------------
(* The caller of a PerIPRateLimiter: every call runs to completion *)

InitP ==
    /\ r = Nil
    /\ err = "unset"
    /\ clock = 0
    /\ args = [rate |-> 0, per |-> 0, burst |-> 0, clk |-> 0]
    /\ ret = [op |-> "none", n |-> 0, val |-> FALSE]
    /\ full = NoFull
    /\ exh = NoExh
    /\ mu = Free
    /\ pc = [t \in Threads |-> "idle"]
    /\ opOf = [t \in Threads |-> "none"]
    /\ nowOf = [t \in Threads |-> 0]
    /\ vnOf = [t \in Threads |-> 0]
    /\ regOf = [t \in Threads |-> 0]
    /\ okOf = [t \in Threads |-> FALSE]
    /\ perip = Nil
    /\ perr = "unset"
    /\ pargs = [rate |-> 0, per |-> 0, max |-> 0]
    /\ pret = NoCallP
    /\ order = << >>
    /\ ConIdle
    /\ level = 0
    /\ WaitIdle

ConstructP ==
    /\ perr = "unset"
    /\ \E ratex \in 0 .. MaxRateP, perx \in 0 .. MaxPerP, max \in -1 .. MaxMax :
         LET res == NewPerIP(ratex, perx, max, clock)
         IN  /\ perip' = res.p
             /\ perr' = res.err
             /\ pargs' = [rate |-> ratex, per |-> perx, max |-> max]
             /\ pret' = [NoCallP EXCEPT !.op = "NewPerIP", !.val = res.err = "nil"]
    /\ UNCHANGED <<r, err, clock, args, seqVars, thrVars, order, conVars, level, waitVars>>

AdvanceP ==
    /\ perr = "nil"
    /\ clock < MaxClockP
    /\ clock' = clock + 1
    /\ pret' = [NoCallP EXCEPT !.op = "Advance"]
    /\ UNCHANGED <<r, err, args, seqVars, thrVars, perip, perr, pargs, order,
                   conVars, level, waitVars>>

\* a finished per-host call: its record, the limiter and the lookup history
Called(name, a, n, res) ==
    LET ev == IF res.looked THEN Evicted(perip.rl, res.p.rl) ELSE NoKey
    IN  /\ perip' = res.p
        /\ perr' = IF res.panic THEN "panic" ELSE perr
        /\ pret' = [op |-> name, a |-> a, n |-> n, val |-> res.val,
                    was |-> IF ~res.looked THEN "none"
                            ELSE IF res.hit THEN "tracked"
                            ELSE IF Contains(perip.rl.recentEvict, String(a))
                                 THEN "evicted"
                            ELSE "unseen"]
        /\ order' = IF res.looked
                    THEN PushFront(Remove(order, ev), String(a))
                    ELSE order
        /\ clock' = IF res.now > clock THEN res.now ELSE clock
        /\ UNCHANGED <<r, err, args, seqVars, thrVars, pargs, conVars, level, waitVars>>

CallLimitP ==
    /\ perr = "nil"
    /\ \E a \in TCPAddrs : Called("Limit", a, 1, PerIPLimit(perip, a, clock))

CallMaybeTakeP ==
    /\ perr = "nil"
    /\ \E a \in TCPAddrs, n \in 1 .. MaxTakeP :
         Called("MaybeTake", a, n, PerIPMaybeTake(perip, a, n, clock))

CallWaitP ==
    /\ perr = "nil"
    /\ \E a \in TCPAddrs, n \in 1 .. MaxTakeP :
         LET res == PerIPWait(perip, a, n, clock)
         IN  /\ res.returns
             /\ res.now <= MaxClockP
             /\ Called("Wait", a, n, res)

CallResetP ==
    /\ perr = "nil"
    /\ \E a \in TCPAddrs : Called("Reset", a, 0, PerIPReset(perip, a, clock))

NextP ==
    \/ ConstructP
    \/ AdvanceP
    \/ CallLimitP
    \/ CallMaybeTakeP
    \/ CallWaitP
    \/ CallResetP

SpecP == InitP /\ [][NextP]_vars

----------------------------------------------------------------------------
(* RateLimiter.Wait among concurrent callers of one limiter.  A Wait is a    *)
(* take that is retried: each try drip-fills and takes under the lock, and   *)
(* a refused try sleeps for the time the missing tokens take to drip in.    *)
(* The clock is the test's: it does not move while a caller has a try to    *)
(* make, nor past the end of a sleep.                                       *)

\* mutant: a refused try sleeps for the whole of the request
DeficitIsRequest(rl, vn) == Want(vn, rl.cost)

\* the time the tokens missing for vn take to drip in
Deficit(rl, vn) == Want(vn, rl.cost) - rl.tokens

\* the callers in a Wait other than t have seen a competitor granted
Rivalled(t) ==
    [u \in Threads |->
        IF u # t /\ pc[u] \in {"wtry", "sleep"}
        THEN [slp[u] EXCEPT !.rival = TRUE]
        ELSE slp[u]]

\* the clock moves on when no caller has a try to make or a sleep to end
TickW ==
    /\ clock < MaxClockW
    /\ \A t \in Threads :
         /\ pc[t] # "wtry"
         /\ pc[t] = "sleep" => clock < slp[t].until
    /\ clock' = clock + 1
    /\ level' = Drained(level, 1)
    /\ UNCHANGED <<r, err, args, seqVars, thrVars, regVars, waitVars>>

\* Wait(vn), entry: the rate check; a request above the capacity is not made
EnterWait(t) ==
    /\ pc[t] = "idle"
    /\ \E n \in 1 .. MaxTakeW :
         /\ Unlimited(r) \/ Want(n, r.cost) <= r.maxtok
         /\ vnOf' = [vnOf EXCEPT ![t] = n]
    /\ opOf' = [opOf EXCEPT ![t] = "Wait"]
    /\ IF Unlimited(r)
       THEN /\ pc' = [pc EXCEPT ![t] = "returned"]
            /\ okOf' = [okOf EXCEPT ![t] = TRUE]
       ELSE /\ pc' = [pc EXCEPT ![t] = "wtry"]
            /\ UNCHANGED okOf
    /\ UNCHANGED <<r, err, clock, args, seqVars, mu, nowOf, regOf, regVars, level,
                   waitVars>>

\* one try of Wait: the drip-fill and the take under the lock; refused, the
\* deficit and the sleep it asks for
WaitTry(t) ==
    /\ pc[t] = "wtry"
    /\ mu = Free
    /\ LET m == MaybeTake(r, vnOf[t], clock)
           d == Deficit(m.rl, vnOf[t])
       IN  /\ r' = m.rl
           /\ nowOf' = [nowOf EXCEPT ![t] = clock]
           /\ level' = Charged(level, r, vnOf[t], m.ok)
           /\ IF m.ok
              THEN /\ pc' = [pc EXCEPT ![t] = "returned"]
                   /\ okOf' = [okOf EXCEPT ![t] = TRUE]
                   /\ slp' = Rivalled(t)
              ELSE /\ pc' = [pc EXCEPT ![t] = "sleep"]
                   /\ UNCHANGED okOf
                   /\ slp' = [slp EXCEPT ![t] =
                                [t0    |-> IF @.naps = 0 THEN clock ELSE @.t0,
                                 need  |-> IF @.naps = 0 THEN d ELSE @.need,
                                 until |-> clock + d,
                                 naps  |-> IF @.naps < MaxNaps THEN @.naps + 1 ELSE @.naps,
                                 rival |-> @.rival]]
    /\ UNCHANGED <<err, clock, args, seqVars, mu, opOf, vnOf, regOf, regVars, rsv>>

\* the sleep is over: the caller tries again
WaitWake(t) ==
    /\ pc[t] = "sleep"
    /\ clock >= slp[t].until
    /\ pc' = [pc EXCEPT ![t] = "wtry"]
    /\ UNCHANGED <<r, err, clock, args, seqVars, mu, opOf, nowOf, vnOf, regOf, okOf,
                   regVars, level, waitVars>>

\* a competitor's MaybeTake(n), from its reading of the clock to its return
TakeNow(t) ==
    /\ pc[t] = "idle"
    /\ mu = Free
    /\ \E n \in 1 .. MaxTakeW :
         LET m == MaybeTake(r, n, clock)
         IN  /\ r' = m.rl
             /\ vnOf' = [vnOf EXCEPT ![t] = n]
             /\ okOf' = [okOf EXCEPT ![t] = m.ok]
             /\ level' = Charged(level, r, n, m.ok)
             /\ slp' = IF m.ok /\ ~Unlimited(r) THEN Rivalled(t) ELSE slp
    /\ opOf' = [opOf EXCEPT ![t] = "MaybeTake"]
    /\ nowOf' = [nowOf EXCEPT ![t] = clock]
    /\ pc' = [pc EXCEPT ![t] = "returned"]
    /\ UNCHANGED <<err, clock, args, seqVars, mu, regOf, regVars, rsv>>

\* the caller has its result and is free to call again
ReturnW(t) ==
    /\ pc[t] = "returned"
    /\ pc' = [pc EXCEPT ![t] = "idle"]
    /\ opOf' = [opOf EXCEPT ![t] = "none"]
    /\ nowOf' = [nowOf EXCEPT ![t] = 0]
    /\ vnOf' = [vnOf EXCEPT ![t] = 0]
    /\ okOf' = [okOf EXCEPT ![t] = FALSE]
    /\ slp' = [slp EXCEPT ![t] = NoSleep]
    /\ UNCHANGED <<r, err, clock, args, seqVars, mu, regOf, regVars, level, rsv>>

NextW ==
    \/ TickW
    \/ \E t \in Threads :
         \/ EnterWait(t)
         \/ WaitTry(t)
         \/ WaitWake(t)
         \/ TakeNow(t)
         \/ ReturnW(t)

SpecW == InitC /\ [][NextW]_vars

----------------------------------------------------------------------------
(* Properties *)

Limited == r # Nil /\ r.rate > 0
Max(a, b) == IF a >= b THEN a ELSE b
Min(a, b) == IF a <= b THEN a ELSE b

\* the step is a call MaybeTake(n), or Limit() (n = 1), by the sequential caller
IsTake(n) == ret'.op \in {"MaybeTake", "Limit"} /\ ret'.n = n

\* the call of the step was granted its tokens
Granted == (ret'.op = "MaybeTake" /\ ret'.val) \/ (ret'.op = "Limit" /\ ~ret'.val)

\* C1: for a limiter with rate > 0, whenever a call of MaybeTake, Limit or
\* Reset returns, under every interleaving of concurrent callers, the balance
\* is within 0 .. maxtok.
TokenBoundAfterEachOperation ==
    [][(Limited /\ \E t \in Threads : pc[t] # "returned" /\ pc'[t] = "returned")
          => (0 <= r'.tokens /\ r'.tokens <= r'.maxtok)]_vars

\* the balance is within 0 .. maxtok in every state but those between the "+="
\* store of the MaybeTake that holds the lock and its clamp
TokenBound ==
    (Limited /\ \A t \in Threads : pc[t] \notin {"last", "clamp"})
        => (0 <= r.tokens /\ r.tokens <= r.maxtok)

\* C2: a limiter built with rate = 0 is unlimited: MaybeTake returns true and
\* Limit returns false whatever n, the number of calls and the clock, and the
\* limiter keeps the tokens and the last it was built with.
UnlimitedPassThrough ==
    (r # Nil /\ r.rate = 0) =>
        /\ r.tokens = 0
        /\ r.last = args.clk
        /\ (ret.op = "MaybeTake" => ret.val)
        /\ (ret.op = "Limit" => ~ret.val)

\* an unlimited limiter queried after the clock has moved on
UnlimitedWitness ==
    /\ r # Nil
    /\ r.rate = 0
    /\ ret.op = "Limit"
    /\ clock > args.clk

\* C3: a new limiter with rate > 0 starts full; at the instant of construction
\* takes are granted exactly as long as they total no more than the capacity;
\* once emptied, a take of 1 is granted as soon as per/rate has elapsed and a
\* take of k is refused while less than k * cost has elapsed.
StartsFull ==
    (Limited /\ ret.op = "New") =>
        /\ r.tokens = r.maxtok
        /\ r.maxtok = r.burst * r.cost
        /\ r.last = clock
BurstThenRecovery ==
    \A n \in TakeSizes :
        IsTake(n) /\ r.rate > 0 =>
            /\ full.src = "new" => (Granted <=> full.taken + n <= Capacity(r))
            /\ (exh.at >= 0 /\ exh.granted = 0) =>
                 /\ (n = 1 /\ (clock - exh.at) * r.rate >= r.per * NS) => Granted
                 /\ (n >= 1 /\ clock - exh.at < n * r.cost) => ~Granted
FreshBucket == []StartsFull /\ [][BurstThenRecovery]_vars

\* C4: after a take has emptied the bucket, the time that passes is credited
\* across rejected queries: while less than capacity * cost has elapsed, the
\* balance is the time elapsed less the cost of the single takes granted since,
\* so that a rejected Limit() has been preceded by exactly floor(d / cost)
\* granted single takes, d being the time elapsed since the bucket was emptied.
AccumulatedAcrossRejections ==
    (Limited /\ exh.at >= 0 /\ r.last - exh.at < r.maxtok) =>
        /\ r.tokens = (r.last - exh.at) - exh.granted * r.cost
        /\ exh.granted <= (r.last - exh.at) \div r.cost
        /\ (ret.op = "Limit" /\ ret.val) =>
               exh.granted = (clock - exh.at) \div r.cost

\* a Limit() granted by time of which part had passed before a rejected query
AccumulatedWitness ==
    /\ Limited
    /\ ret.op = "Limit" /\ ~ret.val
    /\ exh.at >= 0 /\ exh.granted = 1
    /\ exh.rejAt > exh.at
    /\ clock - exh.rejAt < r.cost
    /\ clock - exh.at < r.maxtok

\* C5: MaybeTake(n) on a limited bucket never consumes partially: refused, it
\* leaves min(maxtok, balance + time elapsed); granted, it leaves that less
\* exactly n tokens (n * cost).
NoPartialTake ==
    [][\A n \in TakeSizes :
          (IsTake(n) /\ r.rate > 0) =>
              LET filled == Min(r.maxtok, r.tokens + (clock - r.last))
              IN  r'.tokens = IF Granted THEN filled - n * r.cost ELSE filled]_vars

\* C6: the capacity of a limiter built with rate > 0 and per > 0 is
\* max(rate, burst) tokens, whatever the burst.
CapacityIsMaxOfRateAndBurst ==
    Limited => r.maxtok = Max(args.rate, args.burst) * r.cost

\* C7: on a limited bucket MaybeTake(n) with n above the capacity returns
\* false, for every n a uint holds.
TakeAboveCapacityFails ==
    [][\A n \in TakeSizes :
          (IsTake(n) /\ r.rate > 0 /\ n > Capacity(r)) => ~Granted]_vars

\* C8: under concurrent MaybeTake and Limit calls and a clock that never goes
\* back, every write of last stores a time not earlier than the one it replaces.
LastMovesForward == [][r.last <= r'.last]_vars

----------------------------------------------------------------------------
(* Concurrent callers of PerIPRateLimiter.Limit, the variant that takes the  *)
(* registry's own lock around Get and Add: one step per statement           *)

\* the registries <<rate, per, max>> the concurrent callers share
SharedR == {<<0, 1, 3>>, <<1, 1, 3>>, <<2, 1, 3>>}

\* the addresses they present
AddrsR == {a \in TCPAddrs : a.host = "h1"}

\* mutant: Lock does not wait for the holder
UnlockedAlways(m) == TRUE

\* p.Lock() goes through when no caller holds the lock
Unlocked(m) == m = Free

InitR ==
    /\ r = Nil
    /\ err = "unset"
    /\ clock = 0
    /\ args = [rate |-> 0, per |-> 0, burst |-> 0, clk |-> 0]
    /\ ret = [op |-> "none", n |-> 0, val |-> FALSE]
    /\ full = NoFull
    /\ exh = NoExh
    /\ mu = Free
    /\ pc = [t \in Threads |-> "idle"]
    /\ opOf = [t \in Threads |-> "none"]
    /\ nowOf = [t \in Threads |-> 0]
    /\ vnOf = [t \in Threads |-> 0]
    /\ regOf = [t \in Threads |-> 0]
    /\ okOf = [t \in Threads |-> FALSE]
    /\ \E c \in SharedR :
         /\ perip = NewPerIP(c[1], c[2], c[3], 0).p
         /\ pargs = [rate |-> c[1], per |-> c[2], max |-> c[3]]
    /\ perr = "nil"
    /\ pret = [NoCallP EXCEPT !.op = "NewPerIP", !.val = TRUE]
    /\ order = << >>
    /\ ConIdle
    /\ level = 0
    /\ WaitIdle

\* Limit, entry: the check for the unlimited rate, then s := a.String()
EnterLimitR(t) ==
    /\ pc[t] = "idle"
    /\ opOf' = [opOf EXCEPT ![t] = "Limit"]
    /\ \E a \in AddrsR :
         /\ aOf' = [aOf EXCEPT ![t] = a]
         /\ IF perip.rl = Nil
            THEN /\ pc' = [pc EXCEPT ![t] = "returned"]
                 /\ UNCHANGED kOf
            ELSE /\ pc' = [pc EXCEPT ![t] = "plock"]
                 /\ kOf' = [kOf EXCEPT ![t] = String(a)]
    /\ okOf' = [okOf EXCEPT ![t] = FALSE]
    /\ UNCHANGED <<r, err, clock, args, seqVars, mu, nowOf, vnOf, regOf,
                   perip, perr, pargs, pret, order, lim, heap, pmu, zOf, grants,
                   zmu, level, waitVars>>

\* p.Lock()
PLock(t) ==
    /\ pc[t] = "plock"
    /\ Unlocked(pmu)
    /\ pmu' = t
    /\ pc' = [pc EXCEPT ![t] = "pget"]
    /\ UNCHANGED <<r, err, clock, args, seqVars, mu, opOf, nowOf, vnOf, regOf, okOf,
                   perip, perr, pargs, pret, order, lim, heap, aOf, kOf, zOf, grants,
                   zmu, level, waitVars>>

\* if r, ok := p.rl.Get(s); ok { z = r.(*RateLimiter) }
PGet(t) ==
    /\ pc[t] = "pget"
    /\ LET g == TwoQGet(perip.rl, kOf[t])
       IN  /\ perip' = [perip EXCEPT !.rl = g.c]
           /\ IF g.ok
              THEN /\ zOf' = [zOf EXCEPT ![t] = g.v.id]
                   /\ pc' = [pc EXCEPT ![t] = "punlock"]
              ELSE /\ pc' = [pc EXCEPT ![t] = "padd"]
                   /\ UNCHANGED zOf
    /\ UNCHANGED <<r, err, clock, args, seqVars, mu, opOf, nowOf, vnOf, regOf, okOf,
                   perr, pargs, pret, order, lim, heap, pmu, aOf, kOf, grants,
                   zmu, level, waitVars>>

\* else { z, _ = New(p.rate, p.per); p.rl.Add(s, z) }
PAdd(t) ==
    /\ pc[t] = "padd"
    /\ LET id == Len(heap) + 1
       IN  /\ heap' = Append(heap, [key |-> kOf[t], b |-> New(perip.rate, perip.per, clock).rl])
           /\ perip' = [perip EXCEPT !.rl = TwoQAdd(@, kOf[t], [id |-> id])]
           /\ zOf' = [zOf EXCEPT ![t] = id]
    /\ zmu' = Append(zmu, Free)
    /\ pc' = [pc EXCEPT ![t] = "punlock"]
    /\ UNCHANGED <<r, err, clock, args, seqVars, mu, opOf, nowOf, vnOf, regOf, okOf,
                   perr, pargs, pret, order, lim, pmu, aOf, kOf, grants,
                   level, waitVars>>

\* mutant: Limit goes on to the bucket without releasing the registry
PUnlockKeepsLock(t) ==
    /\ pc[t] = "punlock"
    /\ pc' = [pc EXCEPT ![t] = "zlock"]
    /\ UNCHANGED <<r, err, clock, args, seqVars, mu, opOf, nowOf, vnOf, regOf, okOf,
                   perip, perr, pargs, pret, order, lim, heap, pmu, aOf, kOf, zOf, grants,
                   zmu, level, waitVars>>

\* p.Unlock()
PUnlock(t) ==
    /\ pc[t] = "punlock"
    /\ pmu' = Free
    /\ pc' = [pc EXCEPT ![t] = "zlock"]
    /\ UNCHANGED <<r, err, clock, args, seqVars, mu, opOf, nowOf, vnOf, regOf, okOf,
                   perip, perr, pargs, pret, order, lim, heap, aOf, kOf, zOf, grants,
                   zmu, level, waitVars>>

\* return z.Limit(): MaybeTake takes the bucket's own lock, r.mu.Lock()
ZLock(t) ==
    /\ pc[t] = "zlock"
    /\ Unlocked(zmu[zOf[t]])
    /\ zmu' = [zmu EXCEPT ![zOf[t]] = t]
    /\ pc' = [pc EXCEPT ![t] = "zlimit"]
    /\ UNCHANGED <<r, err, clock, args, seqVars, mu, opOf, nowOf, vnOf, regOf, okOf,
                   perip, perr, pargs, pret, order, lim, heap, pmu, aOf, kOf, zOf, grants,
                   level, waitVars>>

\* z.Limit(), under the bucket's own lock: the refill and the take
ZLimit(t) ==
    /\ pc[t] = "zlimit"
    /\ LET m == Limit(heap[zOf[t]].b, clock)
       IN  /\ heap' = [heap EXCEPT ![zOf[t]].b = m.rl]
           /\ okOf' = [okOf EXCEPT ![t] = m.limited]
           /\ grants' = [grants EXCEPT ![kOf[t]] = IF m.limited THEN @ ELSE @ + 1]
    /\ pc' = [pc EXCEPT ![t] = "zunlock"]
    /\ UNCHANGED <<r, err, clock, args, seqVars, mu, opOf, nowOf, vnOf, regOf,
                   perip, perr, pargs, pret, order, lim, pmu, aOf, kOf, zOf, zmu, level,
                   waitVars>>

\* z.Limit(): r.mu.Unlock(), and the return
ZUnlock(t) ==
    /\ pc[t] = "zunlock"
    /\ zmu' = [zmu EXCEPT ![zOf[t]] = Free]
    /\ pc' = [pc EXCEPT ![t] = "returned"]
    /\ UNCHANGED <<r, err, clock, args, seqVars, mu, opOf, nowOf, vnOf, regOf, okOf,
                   perip, perr, pargs, pret, order, lim, heap, pmu, aOf, kOf, zOf, grants,
                   level, waitVars>>

\* the caller has its result and is free to call again
ReturnR(t) ==
    /\ pc[t] = "returned"
    /\ pc' = [pc EXCEPT ![t] = "idle"]
    /\ opOf' = [opOf EXCEPT ![t] = "none"]
    /\ okOf' = [okOf EXCEPT ![t] = FALSE]
    /\ aOf' = [aOf EXCEPT ![t] = NoAddr]
    /\ kOf' = [kOf EXCEPT ![t] = NoKey]
    /\ zOf' = [zOf EXCEPT ![t] = 0]
    /\ UNCHANGED <<r, err, clock, args, seqVars, mu, nowOf, vnOf, regOf,
                   perip, perr, pargs, pret, order, lim, heap, pmu, grants,
                   zmu, level, waitVars>>

NextR ==
    \E t \in Threads :
        \/ EnterLimitR(t)
        \/ PLock(t)
        \/ PGet(t)
        \/ PAdd(t)
        \/ PUnlock(t)
        \/ ZLock(t)
        \/ ZLimit(t)
        \/ ZUnlock(t)
        \/ ReturnR(t)

SpecR == InitR /\ [][NextR]_vars

\* a call under way goes on: the scheduler runs every caller that can take a
\* step, and a caller waiting for a lock that is released again and again
\* gets it
Running(t) ==
    \/ PLock(t)
    \/ PGet(t)
    \/ PAdd(t)
    \/ PUnlock(t)
    \/ ZLock(t)
    \/ ZLimit(t)
    \/ ZUnlock(t)

SpecRF == SpecR /\ \A t \in Threads : SF_vars(Running(t))

----------------------------------------------------------------------------
(* Limiter: the global limiter and the cache of per-host limiters *)

\* limit(r): a negative rate stands for no limit
limit(x) == IF x < 0 THEN [inf |-> TRUE, qps |-> 0] ELSE [inf |-> FALSE, qps |-> x]

\* rate.NewLimiter(l, b): a bucket of b tokens, full
RateNewLimiter(l, b) == [limit |-> l, burst |-> b, tokens |-> b]

\* rate.Limiter.Allow at the instant the limiter was made
Allow(l) ==
    IF l.limit.inf
    THEN [l |-> l, ok |-> TRUE]
    ELSE IF l.tokens >= 1
    THEN [l |-> [l EXCEPT !.tokens = @ - 1], ok |-> TRUE]
    ELSE [l |-> l, ok |-> FALSE]

\* New(g, p, cachesize)
NewLimiter(g, p, cachesize) ==
    LET l == New2QParams(cachesize, Default2QRecentRatio, Default2QGhostEntries)
        b == IF 2 * p < 0 THEN 0 ELSE 2 * p
    IN  IF l.err # "nil"
        THEN [r |-> Nil, err |-> "error"]
        ELSE [r |-> [gl |-> RateNewLimiter(limit(g), 3 * g), h |-> l.c,
                     p |-> limit(p), g |-> limit(g), b |-> b, cache |-> cachesize],
              err |-> "nil"]

\* net.SplitHostPort
SplitHostPort(s) ==
    IF Len(s) = 2
    THEN [host |-> <<s[1]>>, err |-> "nil"]
    ELSE [host |-> NoKey, err |-> "error"]

\* host(a): the address without its port, or the whole of it
host(a) ==
    LET s == String(a)
        h == SplitHostPort(s)
    IN  IF h.err = "nil" THEN h.host ELSE s

\* the limiters <<g, p, cachesize>> the concurrent callers share
SharedL == {<<1, 1, 2>>, <<-1, 1, 2>>, <<0, 0, 2>>}

\* the addresses they present
AddrsL == {a \in TCPAddrs : a.host = "h1"} \cup UnixAddrs

InitL ==
    /\ r = Nil
    /\ err = "unset"
    /\ clock = 0
    /\ args = [rate |-> 0, per |-> 0, burst |-> 0, clk |-> 0]
    /\ ret = [op |-> "none", n |-> 0, val |-> FALSE]
    /\ full = NoFull
    /\ exh = NoExh
    /\ mu = Free
    /\ pc = [t \in Threads |-> "idle"]
    /\ opOf = [t \in Threads |-> "none"]
    /\ nowOf = [t \in Threads |-> 0]
    /\ vnOf = [t \in Threads |-> 0]
    /\ regOf = [t \in Threads |-> 0]
    /\ okOf = [t \in Threads |-> FALSE]
    /\ perip = Nil
    /\ perr = "unset"
    /\ pargs = [rate |-> 0, per |-> 0, max |-> 0]
    /\ pret = NoCallP
    /\ order = << >>
    /\ \E c \in SharedL : lim = NewLimiter(c[1], c[2], c[3]).r
    /\ heap = << >>
    /\ pmu = Free
    /\ aOf = [t \in Threads |-> NoAddr]
    /\ kOf = [t \in Threads |-> NoKey]
    /\ zOf = [t \in Threads |-> 0]
    /\ grants = [k \in Keys |-> 0]
    /\ zmu = << >>
    /\ level = 0
    /\ WaitIdle

\* Allow: r.gl.Allow()
AllowG(t) ==
    /\ pc[t] = "idle"
    /\ opOf' = [opOf EXCEPT ![t] = "Allow"]
    /\ LET m == Allow(lim.gl)
       IN  /\ lim' = [lim EXCEPT !.gl = m.l]
           /\ okOf' = [okOf EXCEPT ![t] = m.ok]
    /\ pc' = [pc EXCEPT ![t] = "returned"]
    /\ UNCHANGED <<r, err, clock, args, seqVars, mu, nowOf, vnOf, regOf,
                   perip, perr, pargs, pret, order, heap, pmu, aOf, kOf, zOf, grants,
                   zmu, level, waitVars>>

\* AllowHost, getRL: k := host(a)
EnterAllowHost(t) ==
    /\ pc[t] = "idle"
    /\ opOf' = [opOf EXCEPT ![t] = "AllowHost"]
    /\ \E a \in AddrsL :
         /\ aOf' = [aOf EXCEPT ![t] = a]
         /\ kOf' = [kOf EXCEPT ![t] = host(a)]
    /\ pc' = [pc EXCEPT ![t] = "hget"]
    /\ UNCHANGED <<r, err, clock, args, seqVars, mu, nowOf, vnOf, regOf, okOf,
                   perip, perr, pargs, pret, order, lim, heap, pmu, zOf, grants,
                   zmu, level, waitVars>>

\* getRL: rl, ok := r.h.Get(k)
HGet(t) ==
    /\ pc[t] = "hget"
    /\ LET g == TwoQGet(lim.h, kOf[t])
       IN  /\ lim' = [lim EXCEPT !.h = g.c]
           /\ IF g.ok
              THEN /\ zOf' = [zOf EXCEPT ![t] = g.v.id]
                   /\ pc' = [pc EXCEPT ![t] = "allow"]
              ELSE /\ pc' = [pc EXCEPT ![t] = "hnew"]
                   /\ UNCHANGED zOf
    /\ UNCHANGED <<r, err, clock, args, seqVars, mu, opOf, nowOf, vnOf, regOf, okOf,
                   perip, perr, pargs, pret, order, heap, pmu, aOf, kOf, grants,
                   zmu, level, waitVars>>

\* getRL: if !ok { rl = rate.NewLimiter(r.p, r.b)
HNew(t) ==
    /\ pc[t] = "hnew"
    /\ heap' = Append(heap, [key |-> kOf[t], b |-> RateNewLimiter(lim.p, lim.b)])
    /\ zOf' = [zOf EXCEPT ![t] = Len(heap) + 1]
    /\ pc' = [pc EXCEPT ![t] = "hadd"]
    /\ UNCHANGED <<r, err, clock, args, seqVars, mu, opOf, nowOf, vnOf, regOf, okOf,
                   perip, perr, pargs, pret, order, lim, pmu, aOf, kOf, grants,
                   zmu, level, waitVars>>

\* getRL: r.h.Add(k, rl) }
HAdd(t) ==
    /\ pc[t] = "hadd"
    /\ lim' = [lim EXCEPT !.h = TwoQAdd(@, kOf[t], [id |-> zOf[t]])]
    /\ pc' = [pc EXCEPT ![t] = "allow"]
    /\ UNCHANGED <<r, err, clock, args, seqVars, mu, opOf, nowOf, vnOf, regOf, okOf,
                   perip, perr, pargs, pret, order, heap, pmu, aOf, kOf, zOf, grants,
                   zmu, level, waitVars>>

\* AllowHost: return rl.Allow()
HAllow(t) ==
    /\ pc[t] = "allow"
    /\ LET m == Allow(heap[zOf[t]].b)
       IN  /\ heap' = [heap EXCEPT ![zOf[t]].b = m.l]
           /\ okOf' = [okOf EXCEPT ![t] = m.ok]
           /\ grants' = [grants EXCEPT ![kOf[t]] = IF m.ok THEN @ + 1 ELSE @]
    /\ pc' = [pc EXCEPT ![t] = "returned"]
    /\ UNCHANGED <<r, err, clock, args, seqVars, mu, opOf, nowOf, vnOf, regOf,
                   perip, perr, pargs, pret, order, lim, pmu, aOf, kOf, zOf,
                   zmu, level, waitVars>>

NextL ==
    \E t \in Threads :
        \/ AllowG(t)
        \/ EnterAllowHost(t)
        \/ HGet(t)
        \/ HNew(t)
        \/ HAdd(t)
        \/ HAllow(t)
        \/ ReturnR(t)

SpecL == InitL /\ [][NextL]_vars

----------------------------------------------------------------------------
(* Limiter.Wait: the global limiter over time.  One tick of the clock is the *)
(* time the limiter takes to make one token, so that tokens stay whole.     *)

\* rate.InfDuration: no bound on the wait of a reservation
InfDuration == 1000

\* limit.tokensFromDuration and limit.durationFromTokens: one token a tick
tokensFromDuration(lm, d) == IF lm.qps > 0 THEN d ELSE 0

\* rate.NewLimiter with the times the limiter keeps
NewTimedLimiter(l, b) ==
    [limit |-> l, burst |-> b, tokens |-> b, last |-> 0, lastEvent |-> 0]

\* lim.advance(t): the tokens at t
advance(l, t) ==
    LET last == IF t < l.last THEN t ELSE l.last
        tokens == l.tokens + tokensFromDuration(l.limit, t - last)
    IN  IF tokens > l.burst THEN l.burst ELSE tokens

\* lim.reserveN(t, n, maxFutureReserve)
reserveN(l, t, n, maxFutureReserve) ==
    IF l.limit.inf
    THEN [l |-> l, ok |-> TRUE, tokens |-> n, timeToAct |-> t]
    ELSE IF l.limit.qps = 0
    THEN IF l.burst >= n
         THEN [l |-> [l EXCEPT !.burst = @ - n], ok |-> TRUE,
               tokens |-> l.burst - n, timeToAct |-> t]
         ELSE [l |-> l, ok |-> FALSE, tokens |-> l.burst, timeToAct |-> t]
    ELSE LET tokens == advance(l, t) - n
             waitDuration == IF tokens < 0 THEN 0 - tokens ELSE 0
         IN  IF n <= l.burst /\ waitDuration <= maxFutureReserve
             THEN [l |-> [l EXCEPT !.last = t, !.tokens = tokens,
                                   !.lastEvent = t + waitDuration],
                   ok |-> TRUE, tokens |-> n, timeToAct |-> t + waitDuration]
             ELSE [l |-> l, ok |-> FALSE, tokens |-> 0, timeToAct |-> 0]

\* Reservation.CancelAt(t)
CancelAt(rv, l, t) ==
    IF ~rv.ok \/ l.limit.inf \/ rv.tokens = 0 \/ rv.timeToAct < t
    THEN l
    ELSE LET restoreTokens ==
                 rv.tokens - tokensFromDuration(l.limit, l.lastEvent - rv.timeToAct)
             tokens == advance(l, t) + restoreTokens
             prevEvent == rv.timeToAct - rv.tokens
         IN  IF restoreTokens <= 0
             THEN l
             ELSE [l EXCEPT !.last = t,
                            !.tokens = IF tokens > l.burst THEN l.burst ELSE tokens,
                            !.lastEvent = IF rv.timeToAct = l.lastEvent /\ prevEvent >= t
                                          THEN prevEvent ELSE @]

\* New(g, p, cachesize) with the times of the global limiter
NewLimiterAt(g, p, cachesize) ==
    LET n == NewLimiter(g, p, cachesize)
    IN  [n.r EXCEPT !.gl = NewTimedLimiter(@.limit, @.burst)]

\* the global rates the waiting callers share
SharedX == {1, 2, 0, -1}

\* what the steps of Wait and Allow leave alone
restX == <<r, err, args, seqVars, mu, vnOf, regOf, perip, perr, pargs, pret, order,
           heap, pmu, aOf, kOf, zOf, grants, zmu, level, slp>>

InitX ==
    /\ r = Nil
    /\ err = "unset"
    /\ clock = 0
    /\ args = [rate |-> 0, per |-> 0, burst |-> 0, clk |-> 0]
    /\ ret = [op |-> "none", n |-> 0, val |-> FALSE]
    /\ full = NoFull
    /\ exh = NoExh
    /\ mu = Free
    /\ pc = [t \in Threads |-> "idle"]
    /\ opOf = [t \in Threads |-> "none"]
    /\ nowOf = [t \in Threads |-> 0]
    /\ vnOf = [t \in Threads |-> 0]
    /\ regOf = [t \in Threads |-> 0]
    /\ okOf = [t \in Threads |-> FALSE]
    /\ perip = Nil
    /\ perr = "unset"
    /\ pargs = [rate |-> 0, per |-> 0, max |-> 0]
    /\ pret = NoCallP
    /\ order = << >>
    /\ \E g \in SharedX : lim = NewLimiterAt(g, 1, 2)
    /\ heap = << >>
    /\ pmu = Free
    /\ aOf = [t \in Threads |-> NoAddr]
    /\ kOf = [t \in Threads |-> NoKey]
    /\ zOf = [t \in Threads |-> 0]
    /\ grants = [k \in Keys |-> 0]
    /\ zmu = << >>
    /\ level = 0
    /\ WaitIdle

\* the clock moves on
TickX ==
    /\ clock < MaxClockX
    /\ clock' = clock + 1
    /\ UNCHANGED <<restX, lim, pc, opOf, nowOf, okOf, rsv>>

\* Allow at the time of the call: r.gl.Allow()
AllowX(t) ==
    /\ pc[t] = "idle"
    /\ opOf' = [opOf EXCEPT ![t] = "Allow"]
    /\ nowOf' = [nowOf EXCEPT ![t] = clock]
    /\ LET m == reserveN(lim.gl, clock, 1, 0)
       IN  /\ lim' = [lim EXCEPT !.gl = m.l]
           /\ okOf' = [okOf EXCEPT ![t] = m.ok]
    /\ pc' = [pc EXCEPT ![t] = "returned"]
    /\ UNCHANGED <<restX, clock, rsv>>

\* Wait(ctx): r.gl.Wait(ctx) up to its select: the burst check, the look
\* at ctx.Done(), the reservation and its delay.  The context has no
\* deadline, so the reservation is always made; the callers stop asking
\* when MaxDebt tokens are owed
WaitX(t) ==
    /\ pc[t] = "idle"
    /\ advance(lim.gl, clock) + MaxDebt > 0
    /\ opOf' = [opOf EXCEPT ![t] = "Wait"]
    /\ nowOf' = [nowOf EXCEPT ![t] = clock]
    /\ \E c \in {"live", "done"} :
         LET m == reserveN(lim.gl, clock, 1, InfDuration)
             rv == [ctx |-> c, ok |-> m.ok, tokens |-> m.tokens,
                    timeToAct |-> m.timeToAct, restored |-> 0, err |-> "unset"]
         IN  IF 1 > lim.gl.burst /\ ~lim.gl.limit.inf
             THEN /\ rsv' = [rsv EXCEPT ![t] = [NoResv EXCEPT !.ctx = c, !.err = "burst"]]
                  /\ pc' = [pc EXCEPT ![t] = "returned"]
                  /\ okOf' = [okOf EXCEPT ![t] = FALSE]
                  /\ UNCHANGED lim
             ELSE IF c = "done"
             THEN /\ rsv' = [rsv EXCEPT ![t] = [NoResv EXCEPT !.ctx = c, !.err = "cancelled"]]
                  /\ pc' = [pc EXCEPT ![t] = "returned"]
                  /\ okOf' = [okOf EXCEPT ![t] = FALSE]
                  /\ UNCHANGED lim
             ELSE /\ lim' = [lim EXCEPT !.gl = m.l]
                  /\ IF m.timeToAct <= clock
                     THEN /\ rsv' = [rsv EXCEPT ![t] = [rv EXCEPT !.err = "nil"]]
                          /\ pc' = [pc EXCEPT ![t] = "returned"]
                          /\ okOf' = [okOf EXCEPT ![t] = TRUE]
                     ELSE /\ rsv' = [rsv EXCEPT ![t] = rv]
                          /\ pc' = [pc EXCEPT ![t] = "timer"]
                          /\ UNCHANGED okOf
    /\ UNCHANGED <<restX, clock>>

\* the caller's context is cancelled while Wait is in its select
CtxDone(t) ==
    /\ pc[t] = "timer"
    /\ rsv[t].ctx = "live"
    /\ rsv' = [rsv EXCEPT ![t].ctx = "done"]
    /\ UNCHANGED <<restX, clock, lim, pc, opOf, nowOf, okOf>>

\* Wait, select: case <-ch: return nil
TimerFires(t) ==
    /\ pc[t] = "timer"
    /\ clock >= rsv[t].timeToAct
    /\ rsv' = [rsv EXCEPT ![t].err = "nil"]
    /\ okOf' = [okOf EXCEPT ![t] = TRUE]
    /\ nowOf' = [nowOf EXCEPT ![t] = clock]
    /\ pc' = [pc EXCEPT ![t] = "returned"]
    /\ UNCHANGED <<restX, clock, lim, opOf>>

\* Wait, select: case <-ctx.Done(): r.Cancel(); return ctx.Err()
WaitCancelled(t) ==
    /\ pc[t] = "timer"
    /\ rsv[t].ctx = "done"
    /\ LET l == CancelAt(rsv[t], lim.gl, clock)
       IN  /\ lim' = [lim EXCEPT !.gl = l]
           /\ rsv' = [rsv EXCEPT ![t].err = "cancelled",
                                 ![t].restored = advance(l, clock) - advance(lim.gl, clock)]
    /\ okOf' = [okOf EXCEPT ![t] = FALSE]
    /\ nowOf' = [nowOf EXCEPT ![t] = clock]
    /\ pc' = [pc EXCEPT ![t] = "returned"]
    /\ UNCHANGED <<restX, clock, opOf>>

\* the caller has its result and is free to call again
ReturnX(t) ==
    /\ pc[t] = "returned"
    /\ pc' = [pc EXCEPT ![t] = "idle"]
    /\ opOf' = [opOf EXCEPT ![t] = "none"]
    /\ nowOf' = [nowOf EXCEPT ![t] = 0]
    /\ okOf' = [okOf EXCEPT ![t] = FALSE]
    /\ rsv' = [rsv EXCEPT ![t] = NoResv]
    /\ UNCHANGED <<restX, clock, lim>>

NextX ==
    \/ TickX
    \/ \E t \in Threads :
         \/ AllowX(t)
         \/ WaitX(t)
         \/ CtxDone(t)
         \/ TimerFires(t)
         \/ WaitCancelled(t)
         \/ ReturnX(t)

SpecX == InitX /\ [][NextX]_vars

----------------------------------------------------------------------------
(* Properties of the per-host registry *)

HasCache == perip # Nil /\ perip.rl # Nil
CallsP == {"Limit", "MaybeTake", "Wait", "Reset"}

\* the step is a per-host call that looked its address up
IsLookup == HasCache /\ pret'.op \in CallsP

EvictsLeastRecentlyUsed ==
    [][IsLookup =>
         LET ev == Evicted(perip.rl, perip'.rl)
         IN  ev # NoKey => ev = Oldest(order)]_vars

\* a new bucket of the registry's rate: full, and last set to the time nw
FullBucket(p, nw) ==
    LET cost == (p.per * NS) \div p.rate
    IN  [rate |-> p.rate, burst |-> p.rate, per |-> p.per, cost |-> cost,
         tokens |-> p.rate * cost, maxtok |-> p.rate * cost, last |-> nw]

\* the bucket z after the call name(n) made on it at time nw
After(name, z, n, nw) ==
    CASE name = "Limit" -> Limit(z, nw).rl
      [] name = "MaybeTake" -> MaybeTake(z, n, nw).rl
      [] name = "Wait" -> Wait(z, n, nw).rl
      [] name = "Reset" -> Reset(z, nw)

\* C13: a call for a key the registry does not track, evicted or never seen,
\* acts on a new full bucket (tokens = capacity, last = now); a call for a
\* tracked key acts on the bucket the registry holds for it.
FreshAfterEviction ==
    [][IsLookup =>
         LET k == String(pret'.a)
             z == IF k \in Tracked(perip.rl)
                  THEN perip.rl.val[k]
                  ELSE FullBucket(perip, clock)
         IN  perip'.rl.val[k] = After(pret'.op, z, pret'.n, clock)]_vars

\* Limit on a key that was evicted earlier is let through
FreshAfterEvictionWitness ==
    /\ HasCache
    /\ pret.op = "Limit"
    /\ pret.was = "evicted"
    /\ ~pret.val

\* C14: a call for one key leaves the bucket of every other key that stays
\* tracked as it was.
PerHostIsolation ==
    [][IsLookup =>
         \A k \in Tracked(perip.rl) \cap Tracked(perip'.rl) :
            k # String(pret'.a) => perip'.rl.val[k] = perip.rl.val[k]]_vars

\* one key has just been limited on its empty bucket while another is full
PerHostIsolationWitness ==
    /\ HasCache
    /\ pret.op = "Limit"
    /\ pret.val
    /\ perip.rl.val[String(pret.a)].tokens < perip.rl.val[String(pret.a)].cost
    /\ \E k \in Tracked(perip.rl) :
         /\ k # String(pret.a)
         /\ perip.rl.val[k].tokens = perip.rl.val[k].maxtok

\* the concurrent callers that hold a limiter for the same key hold the same one
SameInstance ==
    \A t, u \in Threads :
        (zOf[t] # 0 /\ zOf[u] # 0 /\ kOf[t] = kOf[u]) => zOf[t] = zOf[u]

\* C15: concurrent first calls of PerIPRateLimiter.Limit for one unseen key
\* create one bucket: all callers hold the same RateLimiter and the key is
\* granted no more than one bucket's capacity at that instant.
OneBucketPerKey ==
    /\ \A i, j \in 1 .. Len(heap) : heap[i].key = heap[j].key => i = j
    /\ SameInstance
    /\ HasCache => \A k \in Keys : grants[k] <= perip.rate

\* two callers are about to query the one new, untouched bucket of their key
OneBucketPerKeyWitness ==
    /\ HasCache
    /\ pc["t1"] = "zlock"
    /\ pc["t2"] = "zlock"
    /\ kOf["t1"] = kOf["t2"]
    /\ zOf["t1"] = zOf["t2"]
    /\ heap[zOf["t1"]].b.tokens = heap[zOf["t1"]].b.maxtok

\* C16: concurrent AllowHost calls for one unseen host obtain the same
\* rate.Limiter: getRL's get-or-create is atomic.
SameLimiterPerHost ==
    lim # Nil => SameInstance

\* C17: the registry limits by host: two addresses of one host share a bucket,
\* so no two tracked keys belong to the same host.
OneBucketPerHost ==
    HasCache =>
        \A k1, k2 \in Tracked(perip.rl) : k1[1] = k2[1] => k1 = k2

\* C18: a PerIPRateLimiter made with rate = 0 has no cache, never creates an
\* entry, and Limit returns false for every address.
UnlimitedPerIP ==
    (perip # Nil /\ pargs.rate = 0) =>
        /\ perip.rl = Nil
        /\ order = << >>
        /\ pret.op = "Limit" => ~pret.val

UnlimitedPerIPWitness ==
    /\ perip # Nil
    /\ pargs.rate = 0
    /\ pret.op = "Limit"
    /\ ~pret.val

\* C19: on a PerIPRateLimiter made with rate = 0, MaybeTake and Wait return
\* true for every address and every n.
UnlimitedPerIPTakes ==
    (perip # Nil /\ pargs.rate = 0 /\ pret.op \in {"MaybeTake", "Wait"}) => pret.val

\* C20: NewPerIP returns an error and no registry for every max <= 0, whatever
\* the rate, and succeeds for every max > 0 with a valid per.
MaxIsChecked ==
    pret.op = "NewPerIP" =>
        /\ pargs.max <= 0 => (perr = "error" /\ perip = Nil)
        /\ (pargs.max > 0 /\ pargs.per > 0) => (perr = "nil" /\ perip # Nil)

----------------------------------------------------------------------------
(* Properties of the Limiter's zero rate, of the bucket's lock and of Reset  *)
(* on the unlimited registry                                                *)

\* C23: for the Limiter built by New(g, p, cachesize) a zero rate means no
\* limiting: with g = 0 every Allow() returns true, and with p = 0 every
\* AllowHost(a) returns true, for every address and every call.
ZeroRateNeverLimits ==
    \A t \in Threads :
        (lim # Nil /\ pc[t] = "returned") =>
            /\ (opOf[t] = "Allow" /\ lim.g = limit(0)) => okOf[t]
            /\ (opOf[t] = "AllowHost" /\ lim.p = limit(0)) => okOf[t]

\* C24: every write of the bucket's tokens and last by MaybeTake, Limit and
\* Reset is made by the caller that holds the bucket's lock, so that no call
\* overwrites them in the middle of another call's update.
StateOnlyUnderLock ==
    [][r' # r => \E t \in Threads : mu = t /\ pc'[t] # pc[t]]_vars

\* C29: Reset(a) on a PerIPRateLimiter built with rate = 0 returns normally
\* and changes nothing, for every address a.
ResetUnlimitedIsNoOp ==
    [][(CallResetP /\ pargs.rate = 0) => (perr' = "nil" /\ perip' = perip)]_vars

----------------------------------------------------------------------------
(* Rate conformance.  The meter level holds, in ticks, the largest excess   *)
(* over the elapsed time of the tokens granted in a window that ends now:   *)
(* the maximum over t0 of granted(t0, now) * cost - (now - t0).  The tokens  *)
(* granted between any t0 and t1 are at most capacity + (t1 - t0) / cost    *)
(* exactly when the meter never exceeds maxtok = capacity * cost; cost is   *)
(* the limiter's r.cost.                                                    *)

\* C25: for every interleaving of concurrent MaybeTake calls on a limited
\* bucket under a non-decreasing clock, each caller reading the clock and
\* then taking the lock, the tokens granted between any two instants
\* t0 <= t1 are at most capacity + (t1 - t0) / cost.
ConcurrentRateConformance ==
    [][(Limited /\ \E t \in Threads : pc[t] = "sub" /\ pc'[t] = "unlock")
          => level' <= r.maxtok]_vars

\* C26: for any sequence of MaybeTake and Limit calls by one caller on a
\* limited bucket under a non-decreasing clock, the tokens granted between
\* any two instants t0 <= t1 are at most capacity + (t1 - t0) / cost.
RateConformance == Limited => level <= r.maxtok

\* the balance a query made now would see
Available(rl, nw) == Clamp(Refill(rl.tokens, Elapsed(nw, rl.last)), rl.maxtok)

\* the meter and the balance together stay within maxtok
MeterWithinBalance == level + Available(r, clock) <= r.maxtok

\* every step but a take whose n * cost exceeds the machine word keeps the
\* meter within the balance, and with it within maxtok
RateConformanceWithoutOverflow ==
    [][(Limited /\ MeterWithinBalance /\ ~(IsTake(ret'.n) /\ ret'.n * r.cost >= Word))
          => MeterWithinBalance']_vars

----------------------------------------------------------------------------
(* Drip-fill *)

\* the instants a later query can be made at
Later == clock .. MaxClock

\* C27: drip-fill is drift-free: a refused query made between two instants,
\* with no clamping, leaves every later query the balance it would have seen
\* without it, so that a series of refused queries spread over d ends with the
\* balance of a single query made after d, sub-token credit included.
DriftFree ==
    [][(Limited /\ ret'.op \in {"MaybeTake", "Limit"} /\ ~Granted
            /\ r.tokens + (clock - r.last) <= r.maxtok)
          => /\ r'.tokens = r.tokens + (clock - r.last)
             /\ \A t \in Later : Available(r', t) = Available(r, t)]_vars

\* a refused query has kept the credit of a part of a token, and the time
\* that completes the token has then granted a take
DriftFreeWitness ==
    /\ Limited
    /\ ret.op = "Limit" /\ ~ret.val
    /\ exh.at >= 0 /\ exh.granted = 1
    /\ exh.rejAt > exh.at
    /\ (exh.rejAt - exh.at) % r.cost # 0
    /\ clock - exh.at = r.cost

\* the time since the last query is enough to fill the bucket
RefilledByTime == clock - r.last >= r.maxtok

\* C28: once the clock has advanced by at least capacity * cost since the last
\* query, the next query sees a full bucket, tokens = capacity and no more:
\* at that instant takes are granted exactly as long as they total no more
\* than the capacity, and the next is refused.
RefillToFull ==
    [][\A n \in TakeSizes :
          (Limited /\ IsTake(n)) =>
              /\ RefilledByTime =>
                   /\ Granted <=> n <= Capacity(r)
                   /\ r'.tokens = r.maxtok - (IF Granted THEN n * r.cost ELSE 0)
              /\ full.src = "time" => (Granted <=> full.taken + n <= Capacity(r))]_vars

----------------------------------------------------------------------------
(* The order of the locks in PerIPRateLimiter.Limit *)

\* the caller holds the lock of some bucket
HoldsBucket(t) == \E i \in 1 .. Len(zmu) : zmu[i] = t

\* no caller holds the registry's lock and a bucket's lock at once
NeverBothLocks == \A t \in Threads : ~(pmu = t /\ HoldsBucket(t))

\* C30: in PerIPRateLimiter.Limit the registry's lock is released before the
\* bucket's lock is taken and no bucket's lock is held while the registry's
\* lock is taken, so that no caller holds both at once; and under every
\* interleaving of concurrent Limit(a) calls, on one key or on several, every
\* call returns.
LockOrdering ==
    /\ []NeverBothLocks
    /\ \A t \in Threads : (pc[t] # "idle") ~> (pc[t] = "returned")

\* a caller waits for the registry's lock while the other holds the lock of
\* the bucket they both look up
LockOrderingWitness ==
    \E t, u \in Threads :
        /\ t # u
        /\ pc[t] = "plock"
        /\ pc[u] = "zlimit"
        /\ HoldsBucket(u)
        /\ kOf[t] = kOf[u]

----------------------------------------------------------------------------
(* Wait *)

\* the try of caller t in this step was granted
WaitGranted(t) == pc[t] = "wtry" /\ pc'[t] = "returned"

\* the try of caller t in this step was refused
WaitRefused(t) == pc[t] = "wtry" /\ pc'[t] = "sleep"

WaitAloneWitness ==
    \E t \in Threads :
        /\ pc[t] = "returned"
        /\ opOf[t] = "Wait"
        /\ okOf[t]
        /\ slp[t].naps = 1
        /\ ~slp[t].rival
        /\ slp[t].need > 0

----------------------------------------------------------------------------
(* Cancellation of Wait *)

\* C22: a Wait whose cancellation signal fires while it is suspended returns
\* the cancellation error and consumes no tokens: the balance is left as it
\* would be had the call not been made, the token the call had set aside
\* being given back.
CancelConsumesNothing ==
    \A t \in Threads :
        (pc[t] = "returned" /\ opOf[t] = "Wait" /\ rsv[t].ctx = "done"
            /\ nowOf[t] < rsv[t].timeToAct) =>
            /\ rsv[t].err = "cancelled"
            /\ ~okOf[t]
            /\ rsv[t].restored = rsv[t].tokens

\* a Wait cancelled before its token was due, no reservation having been made
\* after its own, has its token given back
CancelOfLastReservation ==
    [][\A t \in Threads :
          (pc[t] = "timer" /\ pc'[t] = "returned" /\ rsv'[t].err = "cancelled"
              /\ clock < rsv[t].timeToAct
              /\ lim.gl.lastEvent = rsv[t].timeToAct) =>
              /\ rsv'[t].restored = rsv[t].tokens
              /\ rsv[t].tokens = 1]_vars
====
